---------------------------- MODULE Spec2Model ----------------------------
(***************************************************************************)
(* The three context adapters of the CLAP wrapper                          *)
(* (src/wrapper/clap/context.rs): WrapperInitContext, WrapperProcessContext *)
(* and WrapperGuiContext, over the shared Wrapper object.                  *)
(*                                                                         *)
(* Option<T> is a sequence of length at most one: None is <<>> and         *)
(* Some(x) is <<x>>.  u32 arguments are drawn from Samples, background     *)
(* tasks from Tasks.  The *_calls variables are histories (what was called *)
(* and what it returned); they are not read by the modelled code.          *)
(***************************************************************************)
EXTENDS Integers, Sequences, FiniteSets, TLC

VARIABLES
    debug_assertions,        \* cfg!(debug_assertions): the build flavour
    init_ctx,                \* lifecycle of the WrapperInitContext
    init_exit,               \* history: how the initialization scope was left
    latency_changed,         \* PendingInitContextRequests::latency_changed
    init_calls,              \* history: calls made through the init context
    engine_calls,            \* history: calls that reached the Wrapper
    proc_ctx,                \* lifecycle of the WrapperProcessContext
    events_borrowed,         \* the contexts holding the event queues' guards
    input_events,            \* input_events_guard: VecDeque<PluginNoteEvent>
    output_events,           \* output_events_guard: VecDeque<PluginNoteEvent>
    input_arrived,           \* history: the input queue when the context was made
    background_tasks,        \* the wrapper's background task queue
    gui_tasks,               \* the wrapper's GUI (main thread) task queue
    proc_calls,              \* history: calls made through the process context
    output_parameter_events, \* the wrapper's bounded queue of OutputParamEvents
    param_gesture_checker,   \* ParamGestureChecker: the parameters in a gesture
    events_unchecked,        \* the same queue in a build without the checker
    gui_calls                \* history: calls made through the GUI context

initVars == << init_ctx, init_exit, latency_changed, init_calls >>

procVars == << proc_ctx, events_borrowed, input_events, output_events, input_arrived,
               background_tasks, gui_tasks, proc_calls >>

guiVars == << output_parameter_events, param_gesture_checker, events_unchecked, gui_calls >>

vars == << debug_assertions, initVars, engine_calls, procVars, guiVars >>

\* The longest history of calls through one init context.
MaxInitCalls == 4

\* The longest history of calls through one process context.
MaxProcCalls == 4

\* The most input events the host delivers to one processing call.
MaxInputEvents == 3

\* The capacity of each of the wrapper's task queues.
TaskQueueCapacity == 2

\* The longest history of calls through the GUI context.
MaxGuiCalls == 4

\* The capacity of the wrapper's queue of output parameter events.
OutboxCapacity == 3

\* The note events of the plugin.
Events == {21, 22}

\* The values a u32 argument (samples, capacity) is drawn from.
Samples == {0, 64, 512}

\* Identifiers of the plugin's background tasks.
Tasks == {11, 12}

None == << >>

Some(x) == << x >>

Last(s) == s[Len(s)]

\* The entries of history h whose tag field f is in the set S, in order.
RECURSIVE Filter(_, _)
Filter(h, S) ==
    IF h = << >> THEN << >>
    ELSE IF Head(h).fn \in S THEN << Head(h) >> \o Filter(Tail(h), S)
    ELSE Filter(Tail(h), S)

(***************************************************************************)
(* The Wrapper (Engine) side.  Every call the adapters make on the wrapper *)
(* is recorded in engine_calls, in the order it is made.                   *)
(***************************************************************************)
Wrapper_set_latency_samples(log, samples) ==
    Append(log, [fn |-> "set_latency_samples", arg |-> samples])

Wrapper_set_current_voice_capacity(log, capacity) ==
    Append(log, [fn |-> "set_current_voice_capacity", arg |-> capacity])

\* (self.wrapper.task_executor.lock())(task): the executor runs the task.
Wrapper_task_executor(log, task) ==
    Append(log, [fn |-> "task_executor", arg |-> task])

(***************************************************************************)
(* WrapperInitContext                                                      *)
(***************************************************************************)
\* PendingInitContextRequests::default(): latency_changed is Cell::new(None).
PendingInitContextRequests_default == None

\* The wrapper builds a fresh init context around a plugin initialization.
make_init_context ==
    /\ init_ctx \in {"none", "dropped"}
    /\ init_ctx' = "alive"
    /\ init_exit' = "none"
    /\ latency_changed' = PendingInitContextRequests_default
    /\ init_calls' = << >>
    /\ engine_calls' = << >>
    /\ UNCHANGED << debug_assertions, procVars, guiVars >>

\* Mutant: the setter forwards to the wrapper at once instead of deferring.
WrapperInitContext_set_latency_samples_Eager(samples) ==
    /\ init_ctx = "alive"
    /\ Len(init_calls) < MaxInitCalls
    /\ engine_calls' = Wrapper_set_latency_samples(engine_calls, samples)
    /\ init_calls' = Append(init_calls, [fn |-> "set_latency_samples", arg |-> samples])
    /\ UNCHANGED << debug_assertions, init_ctx, init_exit, latency_changed, procVars, guiVars >>

WrapperInitContext_set_latency_samples(samples) ==
    /\ init_ctx = "alive"
    /\ Len(init_calls) < MaxInitCalls
    /\ latency_changed' = Some(samples)
    /\ init_calls' = Append(init_calls, [fn |-> "set_latency_samples", arg |-> samples])
    /\ UNCHANGED << debug_assertions, init_ctx, init_exit, engine_calls, procVars, guiVars >>

\* Mutant: the task is queued for the background thread instead of being run.
WrapperInitContext_execute_Queued(task) ==
    /\ init_ctx = "alive"
    /\ Len(init_calls) < MaxInitCalls
    /\ background_tasks' = Append(background_tasks, task)
    /\ init_calls' = Append(init_calls, [fn |-> "execute", arg |-> task])
    /\ UNCHANGED << debug_assertions, init_ctx, init_exit, latency_changed, engine_calls, proc_ctx,
                    events_borrowed, input_events, output_events, input_arrived, gui_tasks,
                    proc_calls, guiVars >>

WrapperInitContext_execute(task) ==
    /\ init_ctx = "alive"
    /\ Len(init_calls) < MaxInitCalls
    /\ engine_calls' = Wrapper_task_executor(engine_calls, task)
    /\ init_calls' = Append(init_calls, [fn |-> "execute", arg |-> task])
    /\ UNCHANGED << debug_assertions, init_ctx, init_exit, latency_changed, procVars, guiVars >>

WrapperInitContext_set_current_voice_capacity(capacity) ==
    /\ init_ctx = "alive"
    /\ Len(init_calls) < MaxInitCalls
    /\ engine_calls' = Wrapper_set_current_voice_capacity(engine_calls, capacity)
    /\ init_calls' = Append(init_calls, [fn |-> "set_current_voice_capacity", arg |-> capacity])
    /\ UNCHANGED << debug_assertions, init_ctx, init_exit, latency_changed, procVars, guiVars >>

\* Mutant: the drop flushes nothing (the pending request is forgotten).
WrapperInitContext_drop_NoFlush ==
    /\ init_ctx = "alive"
    /\ init_ctx' = "dropped"
    /\ latency_changed' = None
    /\ UNCHANGED << debug_assertions, init_calls, engine_calls, procVars, guiVars >>

\* Mutant: the pending value is read with Cell::get() and stays in the cell.
WrapperInitContext_drop_KeepsPending ==
    /\ init_ctx = "alive"
    /\ init_ctx' = "dropped"
    /\ latency_changed' = latency_changed
    /\ engine_calls' =
           IF latency_changed # None
           THEN Wrapper_set_latency_samples(engine_calls, latency_changed[1])
           ELSE engine_calls
    /\ UNCHANGED << debug_assertions, init_calls, procVars, guiVars >>

\* Drop: Cell::take() leaves None behind and returns the old value.
WrapperInitContext_drop ==
    /\ init_ctx = "alive"
    /\ init_ctx' = "dropped"
    /\ latency_changed' = None
    /\ engine_calls' =
           IF latency_changed # None
           THEN Wrapper_set_latency_samples(engine_calls, latency_changed[1])
           ELSE engine_calls
    /\ UNCHANGED << debug_assertions, init_calls, procVars, guiVars >>

\* The ways out of the scope that owns the init context.
InitExits == {"returned", "early"}

\* The initialization leaves the scope that owns the context, at its end or
\* early; the context is a local of that scope, so either way it is dropped.
init_scope_exit(how) ==
    /\ WrapperInitContext_drop
    /\ init_exit' = how

(***************************************************************************)
(* WrapperProcessContext                                                   *)
(***************************************************************************)
\* All sequences over S of length at most n.
BSeq(S, n) == UNION { [1..k -> S] : k \in 0..n }

\* nih_debug_assert!(cond, msg): in a debug build a failed condition is
\* logged (the program goes on); a release build compiles it out.
nih_debug_assert(debug, cond, msg) ==
    IF debug /\ ~cond THEN << msg >> ELSE << >>

\* nih_debug_assert_failure!(msg)
nih_debug_assert_failure(debug, msg) ==
    IF debug THEN << msg >> ELSE << >>

\* A bounded queue's non-blocking push: the task is queued when there is
\* room and refused otherwise; the result tells which.
Wrapper_schedule(queue, task) ==
    IF Len(queue) < TaskQueueCapacity
    THEN [queue |-> Append(queue, task), posted |-> TRUE]
    ELSE [queue |-> queue, posted |-> FALSE]

Wrapper_schedule_background(queue, task) == Wrapper_schedule(queue, task)

Wrapper_schedule_gui(queue, task) == Wrapper_schedule(queue, task)

\* One entry of proc_calls: the call, its argument, what it returned (an
\* Option), whether a task was posted, and the diagnostics it logged.
ProcCall(fn, arg, ret, ok, diags) ==
    [fn |-> fn, arg |-> arg, ret |-> ret, ok |-> ok, diags |-> diags]

\* Mutant: the guards are plain references handed out without a check.
events_guard_Unchecked(borrowed) == [ok |-> TRUE, borrowed |-> borrowed + 1]

\* input_events_guard / output_events_guard are AtomicRefMut: they come from
\* AtomicRefCell::borrow_mut(), which hands out the guard when the cell is
\* not borrowed and panics when it is.
events_guard(borrowed) ==
    IF borrowed = 0
    THEN [ok |-> TRUE, borrowed |-> 1]
    ELSE [ok |-> FALSE, borrowed |-> borrowed]

\* The wrapper borrows its event queues for one processing call; the host
\* has filled the input queue, the output queue was drained after the
\* previous call.
make_process_context(evs) ==
    /\ proc_ctx = "none"
    /\ events_guard(events_borrowed).ok
    /\ proc_ctx' = "alive"
    /\ events_borrowed' = events_guard(events_borrowed).borrowed
    /\ input_events' = evs
    /\ input_arrived' = evs
    /\ output_events' = << >>
    /\ proc_calls' = << >>
    /\ UNCHANGED << debug_assertions, initVars, engine_calls, background_tasks, gui_tasks, guiVars >>

\* A second processing call is made while the first context is alive (the
\* host broke its promise not to): the wrapper asks for the guards again.
reenter_process_context ==
    /\ proc_ctx = "alive"
    /\ Len(proc_calls) < MaxProcCalls
    /\ LET r == events_guard(events_borrowed) IN
       /\ events_borrowed' = r.borrowed
       /\ proc_ctx' = IF r.ok THEN "alive" ELSE "panicked"
       /\ proc_calls' = Append(proc_calls,
              ProcCall("make_process_context", 0, None, r.ok, << >>))
    /\ UNCHANGED << debug_assertions, initVars, engine_calls, input_events, output_events,
                    input_arrived, background_tasks, gui_tasks, guiVars >>

\* The processing call returns and the guards are released.
drop_process_context ==
    /\ proc_ctx = "alive"
    /\ proc_ctx' = "dropped"
    /\ events_borrowed' = events_borrowed - 1
    /\ UNCHANGED << debug_assertions, initVars, engine_calls, input_events, output_events,
                    input_arrived, background_tasks, gui_tasks, proc_calls, guiVars >>

\* Mutant: a full queue makes room by discarding its oldest task.
WrapperProcessContext_execute_background_Evict(task) ==
    /\ proc_ctx = "alive"
    /\ Len(proc_calls) < MaxProcCalls
    /\ LET r == Wrapper_schedule_background(background_tasks, task) IN
       /\ background_tasks' =
              IF r.posted THEN r.queue ELSE Append(Tail(background_tasks), task)
       /\ proc_calls' = Append(proc_calls,
              ProcCall("execute_background", task, None, r.posted,
                       nih_debug_assert(debug_assertions, r.posted, "The task queue is full, dropping task...")))
    /\ UNCHANGED << debug_assertions, initVars, engine_calls, proc_ctx, events_borrowed, input_events,
                    output_events, input_arrived, gui_tasks, guiVars >>

WrapperProcessContext_execute_background(task) ==
    /\ proc_ctx = "alive"
    /\ Len(proc_calls) < MaxProcCalls
    /\ LET r == Wrapper_schedule_background(background_tasks, task) IN
       /\ background_tasks' = r.queue
       /\ proc_calls' = Append(proc_calls,
              ProcCall("execute_background", task, None, r.posted,
                       nih_debug_assert(debug_assertions, r.posted, "The task queue is full, dropping task...")))
    /\ UNCHANGED << debug_assertions, initVars, engine_calls, proc_ctx, events_borrowed, input_events,
                    output_events, input_arrived, gui_tasks, guiVars >>

WrapperProcessContext_execute_gui(task) ==
    /\ proc_ctx = "alive"
    /\ Len(proc_calls) < MaxProcCalls
    /\ LET r == Wrapper_schedule_gui(gui_tasks, task) IN
       /\ gui_tasks' = r.queue
       /\ proc_calls' = Append(proc_calls,
              ProcCall("execute_gui", task, None, r.posted,
                       nih_debug_assert(debug_assertions, r.posted, "The task queue is full, dropping task...")))
    /\ UNCHANGED << debug_assertions, initVars, engine_calls, proc_ctx, events_borrowed, input_events,
                    output_events, input_arrived, background_tasks, guiVars >>

\* Mutant: the events are handed out from the back of the queue.
WrapperProcessContext_next_event_PopBack ==
    /\ proc_ctx = "alive"
    /\ Len(proc_calls) < MaxProcCalls
    /\ input_events' =
           IF input_events = << >> THEN << >>
           ELSE SubSeq(input_events, 1, Len(input_events) - 1)
    /\ proc_calls' = Append(proc_calls,
           ProcCall("next_event", 0,
                    IF input_events = << >> THEN None ELSE Some(Last(input_events)),
                    TRUE, << >>))
    /\ UNCHANGED << debug_assertions, initVars, engine_calls, proc_ctx, events_borrowed, output_events,
                    input_arrived, background_tasks, gui_tasks, guiVars >>

\* VecDeque::pop_front(): None on an empty queue.
WrapperProcessContext_next_event ==
    /\ proc_ctx = "alive"
    /\ Len(proc_calls) < MaxProcCalls
    /\ input_events' = IF input_events = << >> THEN << >> ELSE Tail(input_events)
    /\ proc_calls' = Append(proc_calls,
           ProcCall("next_event", 0,
                    IF input_events = << >> THEN None ELSE Some(Head(input_events)),
                    TRUE, << >>))
    /\ UNCHANGED << debug_assertions, initVars, engine_calls, proc_ctx, events_borrowed, output_events,
                    input_arrived, background_tasks, gui_tasks, guiVars >>

\* Mutant: peeking consumes the event it returns.
WrapperProcessContext_peek_event_Pop ==
    /\ proc_ctx = "alive"
    /\ Len(proc_calls) < MaxProcCalls
    /\ input_events' = IF input_events = << >> THEN << >> ELSE Tail(input_events)
    /\ proc_calls' = Append(proc_calls,
           ProcCall("peek_event", 0,
                    IF input_events = << >> THEN None ELSE Some(Head(input_events)),
                    TRUE, << >>))
    /\ UNCHANGED << debug_assertions, initVars, engine_calls, proc_ctx, events_borrowed, output_events,
                    input_arrived, background_tasks, gui_tasks, guiVars >>

\* VecDeque::front(): a shared reference, the queue is not touched.
WrapperProcessContext_peek_event ==
    /\ proc_ctx = "alive"
    /\ Len(proc_calls) < MaxProcCalls
    /\ proc_calls' = Append(proc_calls,
           ProcCall("peek_event", 0,
                    IF input_events = << >> THEN None ELSE Some(Head(input_events)),
                    TRUE, << >>))
    /\ UNCHANGED << debug_assertions, initVars, engine_calls, proc_ctx, events_borrowed, input_events,
                    output_events, input_arrived, background_tasks, gui_tasks, guiVars >>

\* Mutant: the event is pushed at the front of the output queue.
WrapperProcessContext_send_event_PushFront(event) ==
    /\ proc_ctx = "alive"
    /\ Len(proc_calls) < MaxProcCalls
    /\ output_events' = << event >> \o output_events
    /\ proc_calls' = Append(proc_calls, ProcCall("send_event", event, None, TRUE, << >>))
    /\ UNCHANGED << debug_assertions, initVars, engine_calls, proc_ctx, events_borrowed, input_events,
                    input_arrived, background_tasks, gui_tasks, guiVars >>

\* VecDeque::push_back()
\* Mutant: the event is pushed to the back of the input queue.
WrapperProcessContext_send_event_ToInput(event) ==
    /\ proc_ctx = "alive"
    /\ Len(proc_calls) < MaxProcCalls
    /\ input_events' = Append(input_events, event)
    /\ proc_calls' = Append(proc_calls, ProcCall("send_event", event, None, TRUE, << >>))
    /\ UNCHANGED << debug_assertions, initVars, engine_calls, proc_ctx, events_borrowed, output_events,
                    input_arrived, background_tasks, gui_tasks, guiVars >>

WrapperProcessContext_send_event(event) ==
    /\ proc_ctx = "alive"
    /\ Len(proc_calls) < MaxProcCalls
    /\ output_events' = Append(output_events, event)
    /\ proc_calls' = Append(proc_calls, ProcCall("send_event", event, None, TRUE, << >>))
    /\ UNCHANGED << debug_assertions, initVars, engine_calls, proc_ctx, events_borrowed, input_events,
                    input_arrived, background_tasks, gui_tasks, guiVars >>

\* Mutant: a value equal to the one last forwarded is not forwarded again.
WrapperProcessContext_set_latency_samples_Deduped(samples) ==
    /\ proc_ctx = "alive"
    /\ Len(proc_calls) < MaxProcCalls
    /\ engine_calls' =
           IF /\ Filter(engine_calls, {"set_latency_samples"}) # << >>
              /\ Last(Filter(engine_calls, {"set_latency_samples"})).arg = samples
           THEN engine_calls
           ELSE Wrapper_set_latency_samples(engine_calls, samples)
    /\ proc_calls' = Append(proc_calls, ProcCall("set_latency_samples", samples, None, TRUE, << >>))
    /\ UNCHANGED << debug_assertions, initVars, proc_ctx, events_borrowed, input_events,
                    output_events, input_arrived, background_tasks, gui_tasks, guiVars >>

WrapperProcessContext_set_latency_samples(samples) ==
    /\ proc_ctx = "alive"
    /\ Len(proc_calls) < MaxProcCalls
    /\ engine_calls' = Wrapper_set_latency_samples(engine_calls, samples)
    /\ proc_calls' = Append(proc_calls, ProcCall("set_latency_samples", samples, None, TRUE, << >>))
    /\ UNCHANGED << debug_assertions, initVars, proc_ctx, events_borrowed, input_events, output_events,
                    input_arrived, background_tasks, gui_tasks, guiVars >>

WrapperProcessContext_set_current_voice_capacity(capacity) ==
    /\ proc_ctx = "alive"
    /\ Len(proc_calls) < MaxProcCalls
    /\ engine_calls' = Wrapper_set_current_voice_capacity(engine_calls, capacity)
    /\ proc_calls' = Append(proc_calls,
           ProcCall("set_current_voice_capacity", capacity, None, TRUE, << >>))
    /\ UNCHANGED << debug_assertions, initVars, proc_ctx, events_borrowed, input_events, output_events,
                    input_arrived, background_tasks, gui_tasks, guiVars >>

\* The background thread takes the oldest queued task and runs it.
background_thread_run ==
    /\ background_tasks # << >>
    /\ background_tasks' = Tail(background_tasks)
    /\ engine_calls' = Append(engine_calls,
           [fn |-> "run_background", arg |-> Head(background_tasks)])
    /\ UNCHANGED << debug_assertions, initVars, proc_ctx, events_borrowed, input_events, output_events,
                    input_arrived, gui_tasks, proc_calls, guiVars >>

\* The main thread takes the oldest queued task and runs it.
main_thread_run ==
    /\ gui_tasks # << >>
    /\ gui_tasks' = Tail(gui_tasks)
    /\ engine_calls' = Append(engine_calls, [fn |-> "run_gui", arg |-> Head(gui_tasks)])
    /\ UNCHANGED << debug_assertions, initVars, proc_ctx, events_borrowed, input_events, output_events,
                    input_arrived, background_tasks, proc_calls, guiVars >>

(***************************************************************************)
(* WrapperGuiContext                                                       *)
(***************************************************************************)
\* The ParamPtrs plugin code may pass: two parameters of the plugin and a
\* pointer the wrapper has never registered.
ParamPtrs == {"ptr_gain", "ptr_mode", "ptr_stale"}

\* Normalized values, in hundredths (37 is 0.37, 50 is 0.5).
Normalized == {37, 50}

\* self.wrapper.param_ptr_to_hash.get(&param)
param_ptr_to_hash(param) ==
    CASE param = "ptr_gain" -> Some(101)
      [] param = "ptr_mode" -> Some(102)
      [] OTHER -> None

\* self.wrapper.param_id_from_ptr(param)
param_id_from_ptr(param) ==
    CASE param = "ptr_gain" -> Some("gain")
      [] param = "ptr_mode" -> Some("mode")
      [] OTHER -> None

\* param.step_count(): gain is continuous, mode has four steps.
step_count(param) == IF param = "ptr_mode" THEN Some(4) ELSE None

\* Option::unwrap_or
unwrap_or(opt, default) == IF opt = None THEN default ELSE opt[1]

BeginGesture(hash) == [type |-> "BeginGesture", param_hash |-> hash]

SetValue(hash, value) == [type |-> "SetValue", param_hash |-> hash, clap_plain_value |-> value]

EndGesture(hash) == [type |-> "EndGesture", param_hash |-> hash]

\* The bounded queue's non-blocking push: a full queue refuses the event.
queue_parameter_event(queue, event) ==
    IF Len(queue) < OutboxCapacity
    THEN [queue |-> Append(queue, event), success |-> TRUE]
    ELSE [queue |-> queue, success |-> FALSE]

\* ParamGestureChecker: the set of parameter ids between a begin and an end.
\* It exists in debug builds only, and each method logs when its HashSet
\* operation reports a call out of order.
ParamGestureChecker_begin_set_parameter(checker, param_id) ==
    [checker |-> checker \cup {param_id},
     diags |-> nih_debug_assert(TRUE, param_id \notin checker, "begin_set_parameter twice")]

ParamGestureChecker_set_parameter(checker, param_id) ==
    [checker |-> checker,
     diags |-> nih_debug_assert(TRUE, param_id \in checker, "set_parameter without begin")]

ParamGestureChecker_end_set_parameter(checker, param_id) ==
    [checker |-> checker \ {param_id},
     diags |-> nih_debug_assert(TRUE, param_id \in checker, "end_set_parameter without begin")]

\* The diagnostics the gesture checker logs.
GestureViolations ==
    {"begin_set_parameter twice", "set_parameter without begin", "end_set_parameter without begin"}

\* The diagnostics logged for a ParamPtr the wrapper does not know.
UnknownDiagnostics == {"Unknown parameter", "called with an unknown ParamPtr"}

\* What one raw_* call did: the queue and the checker it leaves, the events
\* it got into the queue and the diagnostics it logged.
GuiEffect(q, sent, c, diags) ==
    [queue |-> q, sent |-> sent, checker |-> c, diags |-> diags]

\* The first match of every raw_* function: resolve the hash and queue the
\* event, or log the unknown parameter.
QueueOrLog(debug, hash, queue, event) ==
    IF hash # None
    THEN LET r == queue_parameter_event(queue, event) IN
         [queue |-> r.queue,
          sent |-> IF r.success THEN << event >> ELSE << >>,
          diags |-> nih_debug_assert(debug, r.success, "Parameter output event queue was full")]
    ELSE [queue |-> queue, sent |-> << >>,
          diags |-> nih_debug_assert_failure(debug, "Unknown parameter")]

\* The #[cfg(debug_assertions)] match of every raw_* function, given what
\* the checker's method returns for a known parameter.
CheckOrLog(debug, id, checker, checked) ==
    IF ~debug THEN [checker |-> checker, diags |-> << >>]
    ELSE IF id # None THEN checked
    ELSE [checker |-> checker,
          diags |-> nih_debug_assert_failure(debug, "called with an unknown ParamPtr")]

\* Mutant: a begin the checker flags is not sent to the host.
raw_begin_set_parameter_Gated(debug, param, queue, checker) ==
    LET hash == param_ptr_to_hash(param)
        id == param_id_from_ptr(param)
        flagged == debug /\ id # None /\ unwrap_or(id, "") \in checker
        q == IF flagged THEN [queue |-> queue, sent |-> << >>, diags |-> << >>]
             ELSE QueueOrLog(debug, hash, queue, BeginGesture(unwrap_or(hash, 0)))
        c == CheckOrLog(debug, id, checker,
                        ParamGestureChecker_begin_set_parameter(checker, unwrap_or(id, "")))
    IN GuiEffect(q.queue, q.sent, c.checker, q.diags \o c.diags)

\* Mutant: a full queue makes room for the begin by discarding its oldest event.
raw_begin_set_parameter_ForcePush(debug, param, queue, checker) ==
    LET hash == param_ptr_to_hash(param)
        id == param_id_from_ptr(param)
        event == BeginGesture(unwrap_or(hash, 0))
        q == IF hash # None /\ Len(queue) >= OutboxCapacity
             THEN [queue |-> Append(Tail(queue), event), sent |-> << event >>, diags |-> << >>]
             ELSE QueueOrLog(debug, hash, queue, event)
        c == CheckOrLog(debug, id, checker,
                        ParamGestureChecker_begin_set_parameter(checker, unwrap_or(id, "")))
    IN GuiEffect(q.queue, q.sent, c.checker, q.diags \o c.diags)

\* Mutant: the checker hears of a begin only when its event was queued.
raw_begin_set_parameter_CheckerOnSuccess(debug, param, queue, checker) ==
    LET hash == param_ptr_to_hash(param)
        id == param_id_from_ptr(param)
        q == QueueOrLog(debug, hash, queue, BeginGesture(unwrap_or(hash, 0)))
        c == IF hash # None /\ q.sent = << >>
             THEN [checker |-> checker, diags |-> << >>]
             ELSE CheckOrLog(debug, id, checker,
                             ParamGestureChecker_begin_set_parameter(checker, unwrap_or(id, "")))
    IN GuiEffect(q.queue, q.sent, c.checker, q.diags \o c.diags)

raw_begin_set_parameter(debug, param, queue, checker) ==
    LET hash == param_ptr_to_hash(param)
        id == param_id_from_ptr(param)
        q == QueueOrLog(debug, hash, queue, BeginGesture(unwrap_or(hash, 0)))
        c == CheckOrLog(debug, id, checker,
                        ParamGestureChecker_begin_set_parameter(checker, unwrap_or(id, "")))
    IN GuiEffect(q.queue, q.sent, c.checker, q.diags \o c.diags)

\* Mutant: the step count is left out of the conversion.
clap_plain_value_Unscaled(param, normalized) == normalized

\* normalized as f64 * param.step_count().unwrap_or(1) as f64
clap_plain_value(param, normalized) == normalized * unwrap_or(step_count(param), 1)

\* Mutant: a set the checker flags is not sent to the host.
raw_set_parameter_normalized_Gated(debug, param, normalized, queue, checker) ==
    LET hash == param_ptr_to_hash(param)
        id == param_id_from_ptr(param)
        flagged == debug /\ id # None /\ unwrap_or(id, "") \notin checker
        q == IF flagged THEN [queue |-> queue, sent |-> << >>, diags |-> << >>]
             ELSE QueueOrLog(debug, hash, queue,
                             SetValue(unwrap_or(hash, 0), clap_plain_value(param, normalized)))
        c == CheckOrLog(debug, id, checker,
                        ParamGestureChecker_set_parameter(checker, unwrap_or(id, "")))
    IN GuiEffect(q.queue, q.sent, c.checker, q.diags \o c.diags)

raw_set_parameter_normalized(debug, param, normalized, queue, checker) ==
    LET hash == param_ptr_to_hash(param)
        id == param_id_from_ptr(param)
        q == QueueOrLog(debug, hash, queue,
                        SetValue(unwrap_or(hash, 0), clap_plain_value(param, normalized)))
        c == CheckOrLog(debug, id, checker,
                        ParamGestureChecker_set_parameter(checker, unwrap_or(id, "")))
    IN GuiEffect(q.queue, q.sent, c.checker, q.diags \o c.diags)

\* Mutant: the end of a gesture tells the checker a gesture began.
raw_end_set_parameter_ChecksBegin(debug, param, queue, checker) ==
    LET hash == param_ptr_to_hash(param)
        id == param_id_from_ptr(param)
        q == QueueOrLog(debug, hash, queue, EndGesture(unwrap_or(hash, 0)))
        c == CheckOrLog(debug, id, checker,
                        ParamGestureChecker_begin_set_parameter(checker, unwrap_or(id, "")))
    IN GuiEffect(q.queue, q.sent, c.checker, q.diags \o c.diags)

\* Mutant: the end of a gesture queues a BeginGesture (a copied line).
raw_end_set_parameter_SendsBegin(debug, param, queue, checker) ==
    LET hash == param_ptr_to_hash(param)
        id == param_id_from_ptr(param)
        q == QueueOrLog(debug, hash, queue, BeginGesture(unwrap_or(hash, 0)))
        c == CheckOrLog(debug, id, checker,
                        ParamGestureChecker_end_set_parameter(checker, unwrap_or(id, "")))
    IN GuiEffect(q.queue, q.sent, c.checker, q.diags \o c.diags)

\* Mutant: an unknown parameter is sent to the host under the hash 0.
raw_end_set_parameter_DefaultHash(debug, param, queue, checker) ==
    LET hash == param_ptr_to_hash(param)
        id == param_id_from_ptr(param)
        q == QueueOrLog(debug, Some(unwrap_or(hash, 0)), queue, EndGesture(unwrap_or(hash, 0)))
        c == CheckOrLog(debug, id, checker,
                        ParamGestureChecker_end_set_parameter(checker, unwrap_or(id, "")))
    IN GuiEffect(q.queue, q.sent, c.checker, q.diags \o c.diags)

\* Mutant: the end of a gesture is queued twice when the queue has room.
raw_end_set_parameter_PushTwice(debug, param, queue, checker) ==
    LET hash == param_ptr_to_hash(param)
        id == param_id_from_ptr(param)
        q == QueueOrLog(debug, hash, queue, EndGesture(unwrap_or(hash, 0)))
        q2 == QueueOrLog(debug, hash, q.queue, EndGesture(unwrap_or(hash, 0)))
        c == CheckOrLog(debug, id, checker,
                        ParamGestureChecker_end_set_parameter(checker, unwrap_or(id, "")))
    IN GuiEffect(q2.queue, q.sent, c.checker, q.diags \o c.diags)

raw_end_set_parameter(debug, param, queue, checker) ==
    LET hash == param_ptr_to_hash(param)
        id == param_id_from_ptr(param)
        q == QueueOrLog(debug, hash, queue, EndGesture(unwrap_or(hash, 0)))
        c == CheckOrLog(debug, id, checker,
                        ParamGestureChecker_end_set_parameter(checker, unwrap_or(id, "")))
    IN GuiEffect(q.queue, q.sent, c.checker, q.diags \o c.diags)

\* One call through the GUI context: r is its effect in this build, u its
\* effect on the queue of the build that has no gesture checker.
GuiCall(fn, param, normalized, r, u) ==
    /\ Len(gui_calls) < MaxGuiCalls
    /\ output_parameter_events' = r.queue
    /\ param_gesture_checker' = r.checker
    /\ events_unchecked' = u.queue
    /\ gui_calls' = Append(gui_calls,
           [fn |-> fn, param |-> param, normalized |-> normalized,
            len_before |-> Len(output_parameter_events),
            sent |-> r.sent, diags |-> r.diags])
    /\ UNCHANGED << debug_assertions, initVars, engine_calls, procVars >>

WrapperGuiContext_raw_begin_set_parameter(param) ==
    GuiCall("raw_begin_set_parameter", param, 0,
            raw_begin_set_parameter(debug_assertions, param,
                                    output_parameter_events, param_gesture_checker),
            raw_begin_set_parameter(FALSE, param, events_unchecked, {}))

WrapperGuiContext_raw_set_parameter_normalized(param, normalized) ==
    GuiCall("raw_set_parameter_normalized", param, normalized,
            raw_set_parameter_normalized(debug_assertions, param, normalized,
                                         output_parameter_events, param_gesture_checker),
            raw_set_parameter_normalized(FALSE, param, normalized, events_unchecked, {}))

WrapperGuiContext_raw_end_set_parameter(param) ==
    GuiCall("raw_end_set_parameter", param, 0,
            raw_end_set_parameter(debug_assertions, param,
                                  output_parameter_events, param_gesture_checker),
            raw_end_set_parameter(FALSE, param, events_unchecked, {}))

Init ==
    /\ debug_assertions \in BOOLEAN
    /\ init_ctx = "none"
    /\ init_exit = "none"
    /\ latency_changed = None
    /\ init_calls = << >>
    /\ engine_calls = << >>
    /\ proc_ctx = "none"
    /\ events_borrowed = 0
    /\ input_events = << >>
    /\ output_events = << >>
    /\ input_arrived = << >>
    /\ background_tasks = << >>
    /\ gui_tasks = << >>
    /\ proc_calls = << >>
    /\ output_parameter_events = << >>
    /\ param_gesture_checker = {}
    /\ events_unchecked = << >>
    /\ gui_calls = << >>

NextInit ==
    \/ make_init_context
    \/ \E samples \in Samples : WrapperInitContext_set_latency_samples(samples)
    \/ \E task \in Tasks : WrapperInitContext_execute(task)
    \/ \E capacity \in Samples : WrapperInitContext_set_current_voice_capacity(capacity)
    \/ \E how \in InitExits : init_scope_exit(how)

SpecInit == Init /\ [][NextInit]_vars

\* One processing call: the plugin reads and writes note events.
NextProcessEvents ==
    \/ \E evs \in BSeq(Events, MaxInputEvents) : make_process_context(evs)
    \/ WrapperProcessContext_next_event
    \/ WrapperProcessContext_peek_event
    \/ \E event \in Events : WrapperProcessContext_send_event(event)
    \/ drop_process_context

SpecProcessEvents == Init /\ [][NextProcessEvents]_vars

\* One processing call: the plugin hands off tasks while the other threads
\* drain the task queues.
NextProcessTasks ==
    \/ make_process_context(<< >>)
    \/ \E task \in Tasks : WrapperProcessContext_execute_background(task)
    \/ \E task \in Tasks : WrapperProcessContext_execute_gui(task)
    \/ background_thread_run
    \/ main_thread_run
    \/ drop_process_context

SpecProcessTasks == Init /\ [][NextProcessTasks]_vars

\* One processing call, during which the host may start another one.
NextProcessBorrow ==
    \/ \E evs \in BSeq(Events, MaxInputEvents) : make_process_context(evs)
    \/ reenter_process_context
    \/ WrapperProcessContext_next_event
    \/ \E event \in Events : WrapperProcessContext_send_event(event)
    \/ drop_process_context

SpecProcessBorrow == Init /\ [][NextProcessBorrow]_vars

\* One processing call: the plugin notifies the wrapper of latency and voice
\* capacity changes.
NextProcessNotify ==
    \/ make_process_context(<< >>)
    \/ \E samples \in Samples : WrapperProcessContext_set_latency_samples(samples)
    \/ \E capacity \in Samples : WrapperProcessContext_set_current_voice_capacity(capacity)
    \/ drop_process_context

SpecProcessNotify == Init /\ [][NextProcessNotify]_vars

\* One scope at a time: an initialization or a processing call (the host
\* makes neither while the other is running).
NextNotify ==
    \/ proc_ctx = "none" /\ NextInit
    \/ init_ctx = "none" /\ NextProcessNotify

SpecNotify == Init /\ [][NextNotify]_vars

\* The editor edits parameters through the GUI context.
NextGui ==
    \/ \E param \in ParamPtrs : WrapperGuiContext_raw_begin_set_parameter(param)
    \/ \E param \in ParamPtrs, normalized \in Normalized :
           WrapperGuiContext_raw_set_parameter_normalized(param, normalized)
    \/ \E param \in ParamPtrs : WrapperGuiContext_raw_end_set_parameter(param)

SpecGui == Init /\ [][NextGui]_vars

\* The audio thread takes the oldest parameter event off the queue, or finds
\* the queue empty; it never waits for the editor.
pop_parameter_event ==
    /\ IF output_parameter_events # << >>
       THEN /\ output_parameter_events' = Tail(output_parameter_events)
            /\ engine_calls' = Append(engine_calls,
                   [fn |-> "pop_parameter_event", arg |-> Head(output_parameter_events)])
       ELSE UNCHANGED << output_parameter_events, engine_calls >>
    /\ events_unchecked' = IF events_unchecked # << >> THEN Tail(events_unchecked)
                           ELSE events_unchecked
    /\ UNCHANGED << debug_assertions, initVars, procVars, param_gesture_checker, gui_calls >>

\* The parameters and the value the editor uses while the audio thread runs.
ConsumeParams == {"ptr_gain", "ptr_stale"}

ConsumeValues == {50}

\* The editor on the GUI thread and the audio thread, interleaved.
NextGuiConsume ==
    \/ \E param \in ConsumeParams : WrapperGuiContext_raw_begin_set_parameter(param)
    \/ \E param \in ConsumeParams, normalized \in ConsumeValues :
           WrapperGuiContext_raw_set_parameter_normalized(param, normalized)
    \/ \E param \in ConsumeParams : WrapperGuiContext_raw_end_set_parameter(param)
    \/ pop_parameter_event

SpecGuiConsume == Init /\ [][NextGuiConsume]_vars

(***************************************************************************)
(* Properties of the init context                                          *)
(***************************************************************************)
\* The set_latency_samples calls made through the init context, in order.
InitLatencyCalls == Filter(init_calls, {"set_latency_samples"})

\* The latency notifications the wrapper received, in order.
EngineLatencyCalls == Filter(engine_calls, {"set_latency_samples"})

\* C1: once the init context is dropped, the wrapper has received exactly
\* one latency notification, carrying the value of the last
\* set_latency_samples call made through the context, and none at all when
\* set_latency_samples was never called.
C1_LastLatencyFlushedOnce ==
    init_ctx = "dropped" =>
        IF InitLatencyCalls = << >>
        THEN EngineLatencyCalls = << >>
        ELSE EngineLatencyCalls = << Last(InitLatencyCalls) >>

\* A dropped context on which set_latency_samples was called with two
\* different values, the last of which reached the wrapper.
C1_Witness ==
    /\ init_ctx = "dropped"
    /\ Len(InitLatencyCalls) >= 2
    /\ InitLatencyCalls[1].arg # Last(InitLatencyCalls).arg
    /\ EngineLatencyCalls = << Last(InitLatencyCalls) >>

\* C2: while the init context is alive no latency notification has reached
\* the wrapper; a latency notification is only ever the last call the
\* wrapper received for a dropped context, after every task execution and
\* voice capacity change made through that context.
C2_LatencyDeferredToDrop ==
    /\ init_ctx = "alive" => EngineLatencyCalls = << >>
    /\ \A i \in 1..Len(engine_calls) :
           engine_calls[i].fn = "set_latency_samples" =>
               /\ init_ctx = "dropped"
               /\ i = Len(engine_calls)
               /\ Len(Filter(init_calls, {"execute", "set_current_voice_capacity"})) = i - 1

\* A dropped context whose latency notification followed a task execution
\* and a voice capacity change.
C2_Witness ==
    /\ init_ctx = "dropped"
    /\ Len(engine_calls) >= 3
    /\ Last(engine_calls).fn = "set_latency_samples"
    /\ \E i, j \in 1..(Len(engine_calls) - 1) :
           /\ engine_calls[i].fn = "task_executor"
           /\ engine_calls[j].fn = "set_current_voice_capacity"
    /\ init_calls[1].fn = "set_latency_samples"

(***************************************************************************)
(* Properties of the GUI context                                           *)
(***************************************************************************)
Known(param) == param_ptr_to_hash(param) # None

\* By the calls made so far, param is inside a gesture when call i is made:
\* a begin for it came before and no end for it since.
InGestureBefore(i, param) ==
    \E j \in 1..(i - 1) :
        /\ gui_calls[j].fn = "raw_begin_set_parameter"
        /\ gui_calls[j].param = param
        /\ \A k \in (j + 1)..(i - 1) :
               ~(gui_calls[k].fn = "raw_end_set_parameter" /\ gui_calls[k].param = param)

\* Calls i, i+1, i+2 are begin, set, end on one known parameter that was
\* idle, made when the queue had room for their three events.
IsGesture(i) ==
    LET b == gui_calls[i]
        s == gui_calls[i + 1]
        e == gui_calls[i + 2]
    IN /\ b.fn = "raw_begin_set_parameter"
       /\ s.fn = "raw_set_parameter_normalized"
       /\ e.fn = "raw_end_set_parameter"
       /\ s.param = b.param
       /\ e.param = b.param
       /\ Known(b.param)
       /\ ~InGestureBefore(i, b.param)
       /\ b.len_before + 3 <= OutboxCapacity

\* C3: begin, set, end on an idle known parameter, with room in the queue,
\* queue exactly one BeginGesture, one SetValue and one EndGesture for the
\* parameter's hash, in that order, and log no diagnostic.
C3_GestureProtocol ==
    \A i \in 1..(Len(gui_calls) - 2) :
        IsGesture(i) =>
            LET b == gui_calls[i]
                s == gui_calls[i + 1]
                e == gui_calls[i + 2]
                hash == param_ptr_to_hash(b.param)[1]
                queued == SubSeq(output_parameter_events, b.len_before + 1, b.len_before + 3)
            IN /\ b.sent = << BeginGesture(hash) >>
               /\ Len(s.sent) = 1
               /\ s.sent[1].type = "SetValue"
               /\ s.sent[1].param_hash = hash
               /\ e.sent = << EndGesture(hash) >>
               /\ queued = b.sent \o s.sent \o e.sent
               /\ b.diags = << >>
               /\ s.diags = << >>
               /\ e.diags = << >>

\* A debug build in which a gesture on the stepped parameter followed an
\* earlier call.
C3_Witness ==
    /\ debug_assertions
    /\ Len(gui_calls) = 4
    /\ IsGesture(2)
    /\ gui_calls[2].param = "ptr_mode"

\* C4: the events in the queue are the same as in a build without the
\* gesture checker that was given the same calls: a call the checker flags
\* is sent to the host all the same.
C4_CheckerDoesNotGate == output_parameter_events = events_unchecked

\* A debug build in which a flagged call got its event into the queue.
C4_Witness ==
    /\ debug_assertions
    /\ \E i \in 1..Len(gui_calls) :
           /\ \E d \in 1..Len(gui_calls[i].diags) : gui_calls[i].diags[d] \in GestureViolations
           /\ gui_calls[i].sent # << >>
           /\ gui_calls[i].fn = "raw_begin_set_parameter"

\* Call i is a set on a known parameter that is not inside a gesture.
IsSetWhileIdle(i) ==
    /\ gui_calls[i].fn = "raw_set_parameter_normalized"
    /\ Known(gui_calls[i].param)
    /\ ~InGestureBefore(i, gui_calls[i].param)

\* Call i queued its SetValue, and a debug build flagged it.
SetSentAndFlagged(i) ==
    LET c == gui_calls[i] IN
    /\ c.sent = << SetValue(param_ptr_to_hash(c.param)[1],
                            clap_plain_value(c.param, c.normalized)) >>
    /\ debug_assertions =>
           \E d \in 1..Len(c.diags) : c.diags[d] = "set_parameter without begin"

\* C5 as stated: a set on a known idle parameter queues its SetValue and is
\* flagged in a debug build.
C5_Original == \A i \in 1..Len(gui_calls) : IsSetWhileIdle(i) => SetSentAndFlagged(i)

\* C5: a set on a known idle parameter, made when the queue has room,
\* queues its SetValue, and a debug build flags the call.
C5_SetWithoutBegin ==
    \A i \in 1..Len(gui_calls) :
        (IsSetWhileIdle(i) /\ gui_calls[i].len_before < OutboxCapacity) => SetSentAndFlagged(i)

\* A debug build in which a set on an idle parameter followed other calls
\* and was queued.
C5_Witness ==
    /\ debug_assertions
    /\ \E i \in 2..Len(gui_calls) :
           /\ IsSetWhileIdle(i)
           /\ gui_calls[i].len_before < OutboxCapacity
           /\ gui_calls[i].sent # << >>

\* The step makes one more call through the GUI context.
GuiStep == Len(gui_calls') = Len(gui_calls) + 1

\* C6: a call with an unknown ParamPtr leaves the queue and the gesture
\* checker as they were; it logs only unknown-parameter diagnostics, at
\* least one in a debug build and none in a release build.
C6_UnknownParamIsNoOp ==
    [][(GuiStep /\ ~Known(Last(gui_calls').param)) =>
           LET c == Last(gui_calls') IN
           /\ output_parameter_events' = output_parameter_events
           /\ param_gesture_checker' = param_gesture_checker
           /\ c.sent = << >>
           /\ \A d \in 1..Len(c.diags) : c.diags[d] \in UnknownDiagnostics
           /\ debug_assertions <=> c.diags # << >>]_vars

\* A call with an unknown ParamPtr was made while events were queued and a
\* gesture was open.
C6_Witness ==
    /\ \E i \in 2..Len(gui_calls) :
           /\ ~Known(gui_calls[i].param)
           /\ gui_calls[i].len_before > 0
           /\ InGestureBefore(i, "ptr_gain")
    /\ param_gesture_checker # {}

\* C7: a call on a known parameter made when the queue is at capacity
\* leaves the queue as it was: the queued events stay, in order, and the
\* new event is dropped; the call returns.
C7_FullQueueDropsNewest ==
    [][(GuiStep /\ Known(Last(gui_calls').param)
               /\ Len(output_parameter_events) = OutboxCapacity) =>
           /\ output_parameter_events' = output_parameter_events
           /\ Last(gui_calls').sent = << >>]_vars

\* A call on a known parameter was made on a full queue and its event was
\* dropped.
C7_Witness ==
    /\ Len(output_parameter_events) = OutboxCapacity
    /\ \E i \in 1..Len(gui_calls) :
           /\ Known(gui_calls[i].param)
           /\ gui_calls[i].len_before = OutboxCapacity
           /\ gui_calls[i].sent = << >>

(***************************************************************************)
(* Properties of the process context                                       *)
(***************************************************************************)
\* The step makes one more call, fn, through the process context.
ProcStep(fn) ==
    /\ Len(proc_calls') = Len(proc_calls) + 1
    /\ Last(proc_calls').fn = fn

\* The tasks the calls fn of history h got posted, in order.
RECURSIVE Posted(_, _)
Posted(h, fn) ==
    IF h = << >> THEN << >>
    ELSE (IF Head(h).fn = fn /\ Head(h).ok THEN << Head(h).arg >> ELSE << >>)
         \o Posted(Tail(h), fn)

\* The tasks the entries fn of the wrapper's history ran, in order.
RECURSIVE Ran(_, _)
Ran(h, fn) ==
    IF h = << >> THEN << >>
    ELSE (IF Head(h).fn = fn THEN << Head(h).arg >> ELSE << >>) \o Ran(Tail(h), fn)

\* C8: execute_background and execute_gui on a full task queue return with
\* the queue unchanged and the task not posted; the call can always be made
\* (it never waits for room), and a task that was not posted is never run
\* or queued later: the tasks run and queued are the posted ones, in order.
C8_FullTaskQueueDrops ==
    /\ [][(ProcStep("execute_background") /\ Len(background_tasks) = TaskQueueCapacity) =>
              /\ background_tasks' = background_tasks
              /\ ~Last(proc_calls').ok]_vars
    /\ [][(ProcStep("execute_gui") /\ Len(gui_tasks) = TaskQueueCapacity) =>
              /\ gui_tasks' = gui_tasks
              /\ ~Last(proc_calls').ok]_vars
    /\ [](Posted(proc_calls, "execute_background")
              = Ran(engine_calls, "run_background") \o background_tasks)
    /\ [](Posted(proc_calls, "execute_gui") = Ran(engine_calls, "run_gui") \o gui_tasks)
    /\ []((proc_ctx = "alive" /\ Len(proc_calls) < MaxProcCalls) =>
              \A task \in Tasks :
                  /\ ENABLED WrapperProcessContext_execute_background(task)
                  /\ ENABLED WrapperProcessContext_execute_gui(task))

\* A task was refused by the full background queue, the queue was drained
\* afterwards, and the refused task was never run.
C8_Witness ==
    /\ Len(proc_calls) = 3
    /\ ~proc_calls[3].ok
    /\ proc_calls[3].fn = "execute_background"
    /\ proc_calls[3].arg = 12
    /\ proc_calls[3].diags # << >>
    /\ Ran(engine_calls, "run_background") = << 11, 11 >>
    /\ background_tasks = << >>

\* The events the next_event calls of history h returned, in order.
RECURSIVE Returned(_)
Returned(h) ==
    IF h = << >> THEN << >>
    ELSE (IF Head(h).fn = "next_event" /\ Head(h).ret # None
          THEN << Head(h).ret[1] >> ELSE << >>) \o Returned(Tail(h))

\* C9: the events the next_event calls returned, followed by the events
\* still queued, are the input events in arrival order; next_event returns
\* None only when every input event has been returned.
C9_NextEventFifo ==
    /\ Returned(proc_calls) \o input_events = input_arrived
    /\ \A i \in 1..Len(proc_calls) :
           (proc_calls[i].fn = "next_event" /\ proc_calls[i].ret = None) =>
               Returned(SubSeq(proc_calls, 1, i)) = input_arrived

\* Two different events were returned in arrival order, and then None.
C9_Witness ==
    /\ input_arrived = << 22, 21 >>
    /\ Returned(proc_calls) = << 22, 21 >>
    /\ Last(proc_calls).fn = "next_event"
    /\ Last(proc_calls).ret = None

\* The front of a queue, as an Option.
Front(queue) == IF queue = << >> THEN None ELSE Some(Head(queue))

\* C10: peek_event returns the front of the input queue (None when it is
\* empty) and leaves the queue as it was; the next next_event call returns
\* what the peek_event calls before it returned.
C10_PeekEventIsPure ==
    /\ [][ProcStep("peek_event") =>
              /\ input_events' = input_events
              /\ Last(proc_calls').ret = Front(input_events)]_vars
    /\ [](\A i, j \in 1..Len(proc_calls) :
              (/\ i < j
               /\ proc_calls[i].fn = "peek_event"
               /\ proc_calls[j].fn = "next_event"
               /\ \A k \in (i + 1)..(j - 1) : proc_calls[k].fn # "next_event") =>
                  proc_calls[j].ret = proc_calls[i].ret)

\* Two peek_event calls returned the same event, the next_event call after
\* them returned it too, and another event is still queued.
C10_Witness ==
    /\ Len(proc_calls) >= 3
    /\ proc_calls[1].fn = "peek_event"
    /\ proc_calls[2].fn = "peek_event"
    /\ proc_calls[3].fn = "next_event"
    /\ proc_calls[1].ret = Some(21)
    /\ proc_calls[3].ret = Some(21)
    /\ input_events = << 22 >>

\* The events the send_event calls of history h were given, in order.
RECURSIVE Sent(_)
Sent(h) ==
    IF h = << >> THEN << >>
    ELSE (IF Head(h).fn = "send_event" THEN << Head(h).arg >> ELSE << >>) \o Sent(Tail(h))

\* C11: send_event appends its event at the back of the output queue: the
\* queue after the call is the queue before it followed by the event, so
\* the output queue holds the events sent, in the order they were sent.
C11_SendEventAppends ==
    /\ [][ProcStep("send_event") =>
              output_events' = output_events \o << Last(proc_calls').arg >>]_vars
    /\ [](output_events = Sent(proc_calls))

\* Two different events were sent, with another call in between, and are
\* queued in the order they were sent.
C11_Witness ==
    /\ Len(proc_calls) = 3
    /\ proc_calls[1].fn = "send_event"
    /\ proc_calls[2].fn = "next_event"
    /\ proc_calls[3].fn = "send_event"
    /\ output_events = << 22, 21 >>

\* C12: at most one process context holds the guards of the event queues;
\* asking for them while a context is alive panics, and leaves the queues
\* and the borrow as they were; nothing touches the queues after the panic.
C12_ExclusiveCheckedBorrow ==
    /\ [](events_borrowed <= 1)
    /\ [](proc_ctx = "alive" => events_borrowed = 1)
    /\ [][ProcStep("make_process_context") =>
              /\ proc_ctx' = "panicked"
              /\ ~Last(proc_calls').ok
              /\ events_borrowed' = events_borrowed
              /\ input_events' = input_events
              /\ output_events' = output_events]_vars
    /\ [][proc_ctx = "panicked" =>
              /\ input_events' = input_events
              /\ output_events' = output_events]_vars

\* A second context was asked for after the first had read and written
\* events, and the attempt panicked.
C12_Witness ==
    /\ proc_ctx = "panicked"
    /\ events_borrowed = 1
    /\ Len(proc_calls) = 3
    /\ proc_calls[1].fn = "next_event"
    /\ proc_calls[2].fn = "send_event"
    /\ input_events # << >>

(***************************************************************************)
(* More properties of the init context                                     *)
(***************************************************************************)
\* The step makes one more call, fn, through the init context.
InitStep(fn) ==
    /\ Len(init_calls') = Len(init_calls) + 1
    /\ Last(init_calls').fn = fn

\* C13: execute runs its task on the task executor before it returns, once:
\* the call adds exactly the one execution of its task to what the wrapper
\* has done and queues nothing, so the tasks executed are the tasks passed
\* to execute, call for call.
C13_ExecuteRunsOnceInline ==
    /\ [][InitStep("execute") =>
              /\ engine_calls' = Append(engine_calls,
                     [fn |-> "task_executor", arg |-> Last(init_calls').arg])
              /\ background_tasks' = background_tasks
              /\ gui_tasks' = gui_tasks]_vars
    /\ [](Ran(engine_calls, "task_executor") = Ran(init_calls, "execute"))
    /\ [](background_tasks = << >> /\ gui_tasks = << >>)

\* The same task was passed to execute twice, with another task in between,
\* and executed each time.
C13_Witness ==
    /\ init_ctx = "alive"
    /\ Ran(init_calls, "execute") = << 11, 12, 11 >>
    /\ Ran(engine_calls, "task_executor") = << 11, 12, 11 >>

(***************************************************************************)
(* More properties of the GUI context                                      *)
(***************************************************************************)
\* C14: the plain value a SetValue carries is the normalized value times
\* the parameter's step count when the parameter has one, and the
\* normalized value itself when it has none; with four steps, 0.5 gives 2.0
\* (values are in hundredths).
C14_PlainValueScaling ==
    \A i \in 1..Len(gui_calls) :
        LET c == gui_calls[i] IN
        (c.fn = "raw_set_parameter_normalized" /\ c.sent # << >>) =>
            /\ c.sent[1].clap_plain_value =
                   IF step_count(c.param) = None
                   THEN c.normalized
                   ELSE c.normalized * step_count(c.param)[1]
            /\ (step_count(c.param) = Some(4) /\ c.normalized = 50) =>
                   c.sent[1].clap_plain_value = 200

\* 0.5 was set on the parameter with four steps and queued as 2.0, and 0.37
\* was set on the continuous parameter and queued as 0.37.
C14_Witness ==
    \E i, j \in 1..Len(gui_calls) :
        /\ gui_calls[i].param = "ptr_mode"
        /\ gui_calls[i].normalized = 50
        /\ gui_calls[i].sent = << SetValue(102, 200) >>
        /\ gui_calls[j].param = "ptr_gain"
        /\ gui_calls[j].normalized = 37
        /\ gui_calls[j].sent = << SetValue(101, 37) >>

\* Call i logged a diagnostic of the gesture checker.
Flagged(i) ==
    \E d \in 1..Len(gui_calls[i].diags) : gui_calls[i].diags[d] \in GestureViolations

\* C15: in a debug build a known parameter is in the gesture checker
\* exactly when the most recent begin or end called on it was a begin, and
\* a call is flagged exactly when it is a begin on a parameter inside a
\* gesture or a set or an end on a parameter outside one; a release build
\* has no checker and flags nothing.
C15_GestureStateMachine ==
    /\ debug_assertions =>
           /\ \A param \in ParamPtrs :
                  Known(param) =>
                      (param_id_from_ptr(param)[1] \in param_gesture_checker
                           <=> InGestureBefore(Len(gui_calls) + 1, param))
           /\ \A i \in 1..Len(gui_calls) :
                  Known(gui_calls[i].param) =>
                      (Flagged(i) <=>
                           IF gui_calls[i].fn = "raw_begin_set_parameter"
                           THEN InGestureBefore(i, gui_calls[i].param)
                           ELSE ~InGestureBefore(i, gui_calls[i].param))
    /\ ~debug_assertions =>
           /\ param_gesture_checker = {}
           /\ \A i \in 1..Len(gui_calls) : ~Flagged(i)

\* A debug build in which a second begin and a set after the end were
\* flagged, and the begin and the end were not.
C15_Witness ==
    /\ debug_assertions
    /\ Len(gui_calls) = 4
    /\ \A i \in 1..4 : gui_calls[i].param = "ptr_gain"
    /\ gui_calls[1].fn = "raw_begin_set_parameter"
    /\ gui_calls[2].fn = "raw_begin_set_parameter"
    /\ gui_calls[3].fn = "raw_end_set_parameter"
    /\ gui_calls[4].fn = "raw_set_parameter_normalized"
    /\ ~Flagged(1)
    /\ Flagged(2)
    /\ ~Flagged(3)
    /\ Flagged(4)
    /\ param_gesture_checker = {}

(***************************************************************************)
(* The init context's teardown                                             *)
(***************************************************************************)
\* C16: however the initialization scope is left, the drop delivers a
\* recorded pending latency to the wrapper once and clears it: the step
\* that drops the context adds the pending value, when there is one, to
\* the wrapper's calls and leaves the cell empty, and a dropped context has
\* no pending value left to deliver.
C16_FlushOnceOnEveryExit ==
    /\ [][(init_ctx = "alive" /\ init_ctx' = "dropped") =>
              /\ init_exit' \in InitExits
              /\ latency_changed' = None
              /\ engine_calls' =
                     IF latency_changed = None THEN engine_calls
                     ELSE Append(engine_calls,
                              [fn |-> "set_latency_samples", arg |-> latency_changed[1]])]_vars
    /\ [](init_ctx = "dropped" =>
              /\ latency_changed = None
              /\ Len(EngineLatencyCalls) = IF InitLatencyCalls = << >> THEN 0 ELSE 1)

\* The scope was left early, after one set_latency_samples call, and the
\* value was delivered.
C16_Witness ==
    /\ init_ctx = "dropped"
    /\ init_exit = "early"
    /\ init_calls = << [fn |-> "set_latency_samples", arg |-> 64] >>
    /\ engine_calls = << [fn |-> "set_latency_samples", arg |-> 64] >>
    /\ latency_changed = None

(***************************************************************************)
(* Notifications forwarded at once                                         *)
(***************************************************************************)
\* The calls of history h as the wrapper sees them forwarded.
Forwarded(h) == [i \in 1..Len(h) |-> [fn |-> h[i].fn, arg |-> h[i].arg]]

\* C17: set_latency_samples and set_current_voice_capacity on the process
\* context, and set_current_voice_capacity on the init context, reach the
\* wrapper within the call, one notification with the call's value for each
\* call: the wrapper's calls are the context's calls, in order, equal
\* values included, and dropping the process context adds nothing.
C17_ForwardedImmediately ==
    /\ [][ProcStep("set_latency_samples") =>
              engine_calls' = Append(engine_calls,
                  [fn |-> "set_latency_samples", arg |-> Last(proc_calls').arg])]_vars
    /\ [][ProcStep("set_current_voice_capacity") =>
              engine_calls' = Append(engine_calls,
                  [fn |-> "set_current_voice_capacity", arg |-> Last(proc_calls').arg])]_vars
    /\ [][InitStep("set_current_voice_capacity") =>
              engine_calls' = Append(engine_calls,
                  [fn |-> "set_current_voice_capacity", arg |-> Last(init_calls').arg])]_vars
    /\ [](proc_ctx # "none" => engine_calls = Forwarded(proc_calls))
    /\ [](init_ctx # "none" =>
              Filter(engine_calls, {"set_current_voice_capacity"})
                  = Filter(init_calls, {"set_current_voice_capacity"}))

\* A processing call that set the same latency twice and a voice capacity
\* has returned, and the wrapper received the three notifications.
C17_Witness ==
    /\ proc_ctx = "dropped"
    /\ Forwarded(proc_calls) =
           << [fn |-> "set_latency_samples", arg |-> 64],
              [fn |-> "set_latency_samples", arg |-> 64],
              [fn |-> "set_current_voice_capacity", arg |-> 512] >>
    /\ Len(engine_calls) = 3

\* An initialization set the same voice capacity twice and the wrapper
\* received both notifications before the context was dropped.
C17_InitReached ==
    /\ init_ctx = "alive"
    /\ Len(Filter(init_calls, {"set_current_voice_capacity"})) = 2
    /\ Len(Filter(engine_calls, {"set_current_voice_capacity"})) = 2

(***************************************************************************)
(* The editor produces, the audio thread consumes                          *)
(***************************************************************************)
\* The event a raw_* call on a known parameter offers to the queue.
Offered(call) ==
    LET hash == unwrap_or(param_ptr_to_hash(call.param), 0) IN
    CASE call.fn = "raw_begin_set_parameter" -> BeginGesture(hash)
      [] call.fn = "raw_set_parameter_normalized" ->
             SetValue(hash, clap_plain_value(call.param, call.normalized))
      [] call.fn = "raw_end_set_parameter" -> EndGesture(hash)

\* The events offered by the calls of h that found room in the queue.
RECURSIVE Accepted(_)
Accepted(h) ==
    IF h = << >> THEN << >>
    ELSE LET call == Last(h)
             rest == Accepted(SubSeq(h, 1, Len(h) - 1))
         IN IF param_ptr_to_hash(call.param) # None /\ call.len_before < OutboxCapacity
            THEN Append(rest, Offered(call))
            ELSE rest

\* The events the audio thread has taken off the queue, in order.
Consumed == [i \in 1..Len(engine_calls) |-> engine_calls[i].arg]

\* C18: however the editor's calls interleave with the audio thread taking
\* events off the queue, the audio thread can always take its step, and the
\* events it has taken followed by those still queued are the events the
\* editor offered, in the order offered and once each, less only those
\* offered when the queue was at capacity.
C18_ConsumerSeesProducedOrder ==
    /\ Consumed \o output_parameter_events = Accepted(gui_calls)
    /\ ENABLED pop_parameter_event

\* The editor filled the queue and offered one more event, which was
\* dropped; the audio thread then took the two oldest events.
C18_Witness ==
    /\ Len(Consumed) = 2
    /\ Len(Accepted(gui_calls)) = OutboxCapacity
    /\ \E i \in 1..Len(gui_calls) :
           /\ param_ptr_to_hash(gui_calls[i].param) # None
           /\ gui_calls[i].len_before = OutboxCapacity
           /\ gui_calls[i].sent = << >>

\* The audio thread took an event between two calls of the editor, and the
\* queue took the events of both calls.
C18_InterleavedReached ==
    /\ Len(Consumed) >= 2
    /\ \E i \in 2..Len(gui_calls) :
           /\ gui_calls[i - 1].sent # << >>
           /\ gui_calls[i].sent # << >>
           /\ gui_calls[i].len_before <= gui_calls[i - 1].len_before

(***************************************************************************)
(* The gesture checker follows the calls, not the queue                    *)
(***************************************************************************)
\* C19: in a debug build a begin, set or end on a known parameter updates
\* the gesture checker whether or not its event was queued: a begin puts
\* the parameter in the checker, an end takes it out, a set leaves the
\* checker alone, and that holds when the queue was full and the event was
\* dropped.
C19_CheckerIgnoresQueue ==
    [][(GuiStep /\ debug_assertions /\ Known(Last(gui_calls').param)) =>
           LET call == Last(gui_calls')
               id == unwrap_or(param_id_from_ptr(call.param), "")
           IN /\ call.fn = "raw_begin_set_parameter" =>
                     param_gesture_checker' = param_gesture_checker \cup {id}
              /\ call.fn = "raw_set_parameter_normalized" =>
                     param_gesture_checker' = param_gesture_checker
              /\ call.fn = "raw_end_set_parameter" =>
                     param_gesture_checker' = param_gesture_checker \ {id}]_vars

\* A debug build's queue was full when a begin was called on an idle known
\* parameter: the BeginGesture was dropped and the parameter is in the
\* checker.
C19_Witness ==
    /\ debug_assertions
    /\ gui_calls # << >>
    /\ LET call == Last(gui_calls) IN
       /\ call.fn = "raw_begin_set_parameter"
       /\ Known(call.param)
       /\ call.len_before = OutboxCapacity
       /\ call.sent = << >>
       /\ ~InGestureBefore(Len(gui_calls), call.param)
       /\ unwrap_or(param_id_from_ptr(call.param), "") \in param_gesture_checker

\* A debug build's queue was full when an end was called on a parameter
\* inside a gesture: the EndGesture was dropped and the parameter has left
\* the checker.
C19_EndReached ==
    /\ debug_assertions
    /\ gui_calls # << >>
    /\ LET call == Last(gui_calls) IN
       /\ call.fn = "raw_end_set_parameter"
       /\ Known(call.param)
       /\ call.len_before = OutboxCapacity
       /\ call.sent = << >>
       /\ InGestureBefore(Len(gui_calls), call.param)
       /\ unwrap_or(param_id_from_ptr(call.param), "") \notin param_gesture_checker

(***************************************************************************)
(* The two event queues are independent                                    *)
(***************************************************************************)
\* The input events not yet returned when call i of the processing call is
\* made, by the events that arrived and the next_event calls before i.
InputBefore(i) ==
    SubSeq(input_arrived,
           Len(Returned(SubSeq(proc_calls, 1, i - 1))) + 1,
           Len(input_arrived))

\* C20: send_event changes the output queue and leaves the input queue as
\* it was; next_event and peek_event leave the output queue as it was, and
\* what they return is the front of the events that arrived less those
\* already returned, whatever has been sent: an event sent is never
\* returned by a later next_event or peek_event.
C20_QueuesIndependent ==
    /\ [][ProcStep("send_event") =>
              /\ input_events' = input_events
              /\ output_events' # output_events]_vars
    /\ [][(ProcStep("next_event") \/ ProcStep("peek_event")) =>
              output_events' = output_events]_vars
    /\ [](\A i \in 1..Len(proc_calls) :
              proc_calls[i].fn \in {"next_event", "peek_event"} =>
                  proc_calls[i].ret = Front(InputBefore(i)))

\* One event arrived and a different one was sent: next_event returned the
\* one that arrived, then peek_event and next_event found the input queue
\* empty while the event sent was in the output queue.
C20_Witness ==
    /\ input_arrived = << 22 >>
    /\ Len(proc_calls) = 4
    /\ proc_calls[1].fn = "send_event"
    /\ proc_calls[1].arg = 21
    /\ proc_calls[2].fn = "next_event"
    /\ proc_calls[2].ret = Some(22)
    /\ proc_calls[3].fn = "peek_event"
    /\ proc_calls[3].ret = None
    /\ proc_calls[4].fn = "next_event"
    /\ proc_calls[4].ret = None
    /\ output_events = << 21 >>
    /\ input_events = << >>

=============================================================================
